---- MODULE Spec2Model ----
(***************************************************************************)
(* PreViz add-on: the scene parser (scene_parser.py), the image client     *)
(* (cinematographer.py), the director (director.py) and the operators of   *)
(* the add-on (__init__.py), as state machines.                            *)
(*                                                                         *)
(* Four specifications share the module:                                   *)
(*   SpecParser  the pure functions of scene_parser.py applied to inputs   *)
(*               drawn from bounded sets;                                  *)
(*   SpecPoll    one job of the image client: the initial POST, the poll   *)
(*               loop with its real retry ceiling, the download, alone or  *)
(*               as a stage of the foreground workflow;                    *)
(*   SpecDirector  apply_camera_settings of director.py applied to string  *)
(*               inputs drawn from a bounded set;                          *)
(*   Spec        the add-on: operators on the host main loop, worker       *)
(*               threads, one-shot timers and the scene they write.        *)
(***************************************************************************)
EXTENDS Integers, Sequences, FiniteSets, TLC

VARIABLES
    p_stage,        \* SpecParser: "input" before the call, "done" after it
    p_fn,           \* SpecParser: the function applied
    p_resp,         \* SpecParser: the structured-prompt API's answer
    p_existing,     \* SpecParser: existing_params of refine_scene_parameters
    p_request,      \* SpecParser: refinement_request
    p_out,          \* SpecParser: what the call returned or raised
    j_fn,           \* SpecPoll: the function of the image client that runs
    j_pc,           \* SpecPoll: "start", "poll", "download" or "returned"
    j_polls,        \* SpecPoll: status requests issued so far
    j_url,          \* SpecPoll: image_url of _make_api_call once resolved
    j_sawTerminal,  \* SpecPoll: a COMPLETED or FAILED status was received
    j_ret,          \* SpecPoll: what the function returned or raised
    j_init,         \* SpecPoll: history: the answer to the job's initial request
    j_last,         \* SpecPoll: history: the last status answer received
    j_seen,         \* SpecPoll: history: the kinds of status answers received
    disk,           \* SpecPoll: the temp files of the image client on disk
    f_stage,        \* SpecPoll: the stage of _generate_foreground_sync
    f_requested,    \* SpecPoll: history: the stages that have sent a request
    f_urls,         \* SpecPoll: what the base and the removal stage returned
    f_ret,          \* SpecPoll: what _generate_foreground_sync returned or raised
    _last_scene_data,        \* __init__.py: the module-level dict
    custom_script_text,      \* Scene property: the text block, JNull for none
    previz_refine_text,      \* Scene property
    previz_foreground_text,  \* Scene property
    previz_status,           \* Scene property
    scene,          \* the camera, the sun, the world and the objects of the scene
    threads,        \* the worker threads started, in the order of their start
    timers,         \* the callbacks registered with bpy.app.timers, not yet run
    writes,         \* history: the scene writes a finished worker caused, by thread
    last_op,        \* history: the most recent operator execution
    d_stage,        \* SpecDirector: "input" before the call, "done" after it
    d_json_data,    \* SpecDirector: json_data of apply_camera_settings
    d_exc           \* SpecDirector: the exception the call raised, or "none"

parserVars == <<p_stage, p_fn, p_resp, p_existing, p_request, p_out>>

fgVars == <<f_stage, f_requested, f_urls, f_ret>>

pollVars ==
    <<j_fn, j_pc, j_polls, j_url, j_sawTerminal, j_ret, j_init, j_last, j_seen,
      disk, fgVars>>

appVars ==
    <<_last_scene_data, custom_script_text, previz_refine_text,
      previz_foreground_text, previz_status, scene, threads, timers, writes,
      last_op>>

directorVars == <<d_stage, d_json_data, d_exc>>

vars == <<parserVars, pollVars, appVars, directorVars>>

(***************************************************************************)
(* Python values.  A str is a TLA+ string; every other JSON value is a     *)
(* record tagged with its kind.  A dict is a function from its keys.       *)
(***************************************************************************)
NoMap == [k \in {} |-> 0]

J(kind, str, map, items) == [kind |-> kind, str |-> str, map |-> map, items |-> items]

JStr(s) == J("str", s, NoMap, <<>>)

\* a JSON number (its value is never read by the code)
JNum == J("num", "", NoMap, <<>>)

JNull == J("null", "", NoMap, <<>>)

JDict(m) == J("dict", "", m, <<>>)

JList(items) == J("list", "", NoMap, items)

\* a two-element JSON array [k, v] whose first element is the string k
JPair(k, v) == J("pair", "", k :> v, <<>>)

\* a str holding the JSON encoding of value v
JText(v) == J("jsontext", "", NoMap, <<v>>)

\* no value: the key looked up is not there
Absent == J("absent", "", NoMap, <<>>)

\* the result of a Python call: a value, or an exception raised
Ret(v) == [exc |-> "none", val |-> v]

Raise(e) == [exc |-> e, val |-> NoMap]

\* requests.exceptions.RequestException and the subclasses the model raises
RequestExceptions == {"RequestException", "HTTPError"}

(***************************************************************************)
(* str methods                                                             *)
(***************************************************************************)
LowerChar(c) ==
    CASE c = "A" -> "a" [] c = "B" -> "b" [] c = "C" -> "c" [] c = "D" -> "d"
      [] c = "E" -> "e" [] c = "F" -> "f" [] c = "G" -> "g" [] c = "H" -> "h"
      [] c = "I" -> "i" [] c = "J" -> "j" [] c = "K" -> "k" [] c = "L" -> "l"
      [] c = "M" -> "m" [] c = "N" -> "n" [] c = "O" -> "o" [] c = "P" -> "p"
      [] c = "Q" -> "q" [] c = "R" -> "r" [] c = "S" -> "s" [] c = "T" -> "t"
      [] c = "U" -> "u" [] c = "V" -> "v" [] c = "W" -> "w" [] c = "X" -> "x"
      [] c = "Y" -> "y" [] c = "Z" -> "z" [] OTHER -> c

RECURSIVE Lower(_)
Lower(s) ==
    IF Len(s) = 0 THEN ""
    ELSE LowerChar(SubSeq(s, 1, 1)) \o Lower(SubSeq(s, 2, Len(s)))

\* Python's  needle in hay  on two str
Contains(hay, needle) ==
    \E i \in 1..(Len(hay) - Len(needle) + 1) :
        SubSeq(hay, i, i + Len(needle) - 1) = needle

\* not s.strip()
IsBlank(s) == \A i \in 1..Len(s) : SubSeq(s, i, i) \in {" ", "\t", "\n"}

(***************************************************************************)
(* dict and container operations                                           *)
(***************************************************************************)
\* d with the entries of m written over it
Merge(d, m) ==
    [k \in DOMAIN d \cup DOMAIN m |-> IF k \in DOMAIN m THEN m[k] ELSE d[k]]

\* d[k] = v
SetKey(d, k, v) == Merge(d, k :> v)

\* d.get(k, default)
Get(d, k, default) == IF k \in DOMAIN d THEN d[k] ELSE default

\* key in v : "true", "false", or "TypeError" when v is not a container
PyIn(key, v) ==
    CASE v.kind = "dict" -> IF key \in DOMAIN v.map THEN "true" ELSE "false"
      [] v.kind = "list" ->
            IF \E i \in 1..Len(v.items) : v.items[i] = JStr(key)
            THEN "true" ELSE "false"
      [] v.kind = "str" -> IF Contains(v.str, key) THEN "true" ELSE "false"
      [] v.kind = "jsontext" -> "false"
      [] OTHER -> "TypeError"

\* v[key] for a str key
GetItem(v, key) ==
    CASE v.kind = "dict" ->
            IF key \in DOMAIN v.map THEN Ret(v.map[key]) ELSE Raise("KeyError")
      [] OTHER -> Raise("TypeError")

\* json.loads(v)
json_loads(v) ==
    CASE v.kind = "jsontext" -> Ret(v.items[1])
      [] v.kind = "str" -> Raise("JSONDecodeError")
      [] OTHER -> Raise("TypeError")

\* one element of the iterable handed to dict.update: the key/value pair it
\* converts to, or the exception
UpdateItem(item) ==
    CASE item.kind = "pair" -> Ret(item.map)
      [] item.kind = "str" /\ Len(item.str) = 2 ->
            Ret(SubSeq(item.str, 1, 1) :> JStr(SubSeq(item.str, 2, 2)))
      [] item.kind \in {"str", "list", "dict", "jsontext"} -> Raise("ValueError")
      [] OTHER -> Raise("TypeError")

RECURSIVE UpdateFromItems(_, _)
UpdateFromItems(d, items) ==
    IF items = <<>> THEN Ret(d)
    ELSE LET one == UpdateItem(Head(items))
         IN  IF one.exc # "none" THEN Raise(one.exc)
             ELSE UpdateFromItems(Merge(d, one.val), Tail(items))

\* d.update(v): a mapping is merged, any other iterable is read as a
\* sequence of key/value pairs, a non-iterable raises
dict_update(d, v) ==
    CASE v.kind = "dict" -> Ret(Merge(d, v.map))
      [] v.kind = "list" -> UpdateFromItems(d, v.items)
      [] v.kind = "pair" -> UpdateFromItems(d, <<JNum, JNum>>)
      [] v.kind = "str" -> IF v.str = "" THEN Ret(d) ELSE Raise("ValueError")
      [] v.kind = "jsontext" -> Raise("ValueError")
      [] OTHER -> Raise("TypeError")

(***************************************************************************)
(* scene_parser.py                                                         *)
(***************************************************************************)
DEFAULT_PARAMETERS ==
    [camera_angle |-> JStr("Eye Level"),
     lighting |-> JStr("Natural"),
     composition |-> JStr("Wide Shot"),
     field_of_view |-> JStr("35mm")]

\* an HTTP answer with status 200 and the JSON body data
OkResp(data) == [net |-> "ok", data |-> data]

\* requests.post + raise_for_status + response.json() on the answer resp
PostJson(resp) ==
    CASE resp.net = "request_error" -> Raise("RequestException")
      [] resp.net = "http_error" -> Raise("HTTPError")
      [] resp.net = "bad_body" -> Raise("JSONDecodeError")
      [] OTHER -> Ret(resp.data)

\* data["result"]["structured_prompt"], or "absent" when the shape test of
\* the code says the response lacks it
StructuredPromptOf(data) ==
    LET c1 == PyIn("result", data)
    IN  IF c1 = "TypeError" THEN Raise("TypeError")
        ELSE IF c1 = "false" THEN Ret(Absent)
        ELSE LET r == GetItem(data, "result")
             IN  IF r.exc # "none" THEN Raise(r.exc)
                 ELSE LET c2 == PyIn("structured_prompt", r.val)
                      IN  IF c2 = "TypeError" THEN Raise("TypeError")
                          ELSE IF c2 = "false" THEN Ret(Absent)
                          ELSE GetItem(r.val, "structured_prompt")

\* the try block of get_scene_parameters
get_scene_parameters_try(resp) ==
    LET data == PostJson(resp)
    IN  IF data.exc # "none" THEN Raise(data.exc)
        ELSE LET sp == StructuredPromptOf(data.val)
             IN  IF sp.exc # "none" THEN Raise(sp.exc)
                 ELSE IF sp.val = Absent THEN Ret(DEFAULT_PARAMETERS)
                 ELSE LET structured_params == json_loads(sp.val)
                      IN  IF structured_params.exc = "JSONDecodeError"
                          THEN Ret(DEFAULT_PARAMETERS)
                          ELSE IF structured_params.exc # "none"
                          THEN Raise(structured_params.exc)
                          ELSE dict_update(DEFAULT_PARAMETERS, structured_params.val)

get_scene_parameters_NoDefaults(resp) ==
    LET r == get_scene_parameters_try(resp)
        data == PostJson(resp)
        sp == StructuredPromptOf(data.val)
    IN  IF r.exc # "none" THEN Ret(DEFAULT_PARAMETERS)
        ELSE IF sp.val # Absent /\ json_loads(sp.val).exc = "none"
                 /\ json_loads(sp.val).val.kind = "dict"
             THEN Ret(json_loads(sp.val).val.map)
             ELSE r

\* get_scene_parameters: both except clauses return DEFAULT_PARAMETERS.copy()
get_scene_parameters(resp) ==
    LET r == get_scene_parameters_try(resp)
    IN  IF r.exc = "none" THEN r
        ELSE IF r.exc \in RequestExceptions THEN Ret(DEFAULT_PARAMETERS)
        ELSE Ret(DEFAULT_PARAMETERS)

\* refined["lighting"][sub] = value when lighting is a dict; otherwise
\* refined["lighting"] = {"direction": refined.get("lighting", "natural"), sub: value}
SetLighting(refined, sub, value) ==
    IF "lighting" \in DOMAIN refined /\ refined["lighting"].kind = "dict"
    THEN SetKey(refined, "lighting",
                JDict(SetKey(refined["lighting"].map, sub, value)))
    ELSE SetKey(refined, "lighting",
                JDict(("direction" :> Get(refined, "lighting", JStr("natural")))
                      @@ (sub :> value)))

\* lines 160-170: lighting temperature
FallbackTemperature(refined, request_lower) ==
    IF Contains(request_lower, "warm")
    THEN IF "lighting" \in DOMAIN refined /\ refined["lighting"].kind = "dict"
         THEN LET warmed == SetLighting(refined, "temperature", JStr("warm"))
              IN  SetLighting(warmed, "quality",
                              Get(warmed["lighting"].map, "quality", JStr("soft")))
         ELSE SetLighting(refined, "temperature", JStr("warm"))
    ELSE IF Contains(request_lower, "cool") \/ Contains(request_lower, "cold")
    THEN SetLighting(refined, "temperature", JStr("cool"))
    ELSE refined

\* lines 173-182: lighting intensity
FallbackIntensity(refined, request_lower) ==
    IF Contains(request_lower, "bright") \/ Contains(request_lower, "brighter")
    THEN SetLighting(refined, "intensity", JStr("bright"))
    ELSE IF Contains(request_lower, "dim") \/ Contains(request_lower, "darker")
    THEN SetLighting(refined, "intensity", JStr("dim"))
    ELSE refined

\* lines 185-190: camera angle
FallbackCameraAngle(refined, request_lower) ==
    IF Contains(request_lower, "low angle") \/ Contains(request_lower, "lower angle")
    THEN SetKey(refined, "camera_angle", JStr("Low Angle"))
    ELSE IF \/ Contains(request_lower, "high angle")
            \/ Contains(request_lower, "higher angle")
            \/ Contains(request_lower, "overhead")
    THEN SetKey(refined, "camera_angle", JStr("High Angle"))
    ELSE IF Contains(request_lower, "eye level")
    THEN SetKey(refined, "camera_angle", JStr("Eye Level"))
    ELSE refined

\* lines 193-198: shot type / field of view
FallbackFieldOfView(refined, request_lower) ==
    IF Contains(request_lower, "close") \/ Contains(request_lower, "closer")
    THEN SetKey(refined, "field_of_view", JStr("close up"))
    ELSE IF Contains(request_lower, "wide") \/ Contains(request_lower, "wider")
    THEN SetKey(refined, "field_of_view", JStr("wide"))
    ELSE IF Contains(request_lower, "medium")
    THEN SetKey(refined, "field_of_view", JStr("normal"))
    ELSE refined

\* lines 201-210: soft / hard lighting
FallbackQuality(refined, request_lower) ==
    IF Contains(request_lower, "soft") \/ Contains(request_lower, "softer")
    THEN SetLighting(refined, "quality", JStr("soft"))
    ELSE IF Contains(request_lower, "hard") \/ Contains(request_lower, "harsh")
    THEN SetLighting(refined, "quality", JStr("hard"))
    ELSE refined

_fallback_refinement_DropsOthers(existing_params, refinement_request) ==
    LET request_lower == Lower(refinement_request)
        kept == [k \in DOMAIN existing_params \cap DOMAIN DEFAULT_PARAMETERS
                   |-> existing_params[k]]
    IN  FallbackQuality(
          FallbackFieldOfView(
            FallbackCameraAngle(
              FallbackIntensity(
                FallbackTemperature(kept, request_lower),
                request_lower), request_lower), request_lower), request_lower)

\* _fallback_refinement: the five keyword blocks in the order of the code
_fallback_refinement(existing_params, refinement_request) ==
    LET request_lower == Lower(refinement_request)
    IN  FallbackQuality(
          FallbackFieldOfView(
            FallbackCameraAngle(
              FallbackIntensity(
                FallbackTemperature(existing_params, request_lower),
                request_lower), request_lower), request_lower), request_lower)

\* the try block of refine_scene_parameters
refine_scene_parameters_try(existing_params, refinement_request, resp) ==
    LET data == PostJson(resp)
    IN  IF data.exc # "none" THEN Raise(data.exc)
        ELSE LET sp == StructuredPromptOf(data.val)
             IN  IF sp.exc # "none" THEN Raise(sp.exc)
                 ELSE IF sp.val = Absent
                 THEN Ret(_fallback_refinement(existing_params, refinement_request))
                 ELSE LET refined_params == json_loads(sp.val)
                      IN  IF refined_params.exc = "JSONDecodeError"
                          THEN Ret(_fallback_refinement(existing_params,
                                                        refinement_request))
                          ELSE IF refined_params.exc # "none"
                          THEN Raise(refined_params.exc)
                          ELSE dict_update(existing_params, refined_params.val)

refine_scene_parameters_Replace(existing_params, refinement_request, resp) ==
    LET r == refine_scene_parameters_try(existing_params, refinement_request, resp)
        data == PostJson(resp)
        sp == StructuredPromptOf(data.val)
    IN  IF r.exc # "none"
        THEN Ret(_fallback_refinement(existing_params, refinement_request))
        ELSE IF sp.val # Absent /\ json_loads(sp.val).exc = "none"
                 /\ json_loads(sp.val).val.kind = "dict"
             THEN Ret(json_loads(sp.val).val.map)
             ELSE r

\* refine_scene_parameters: both except clauses return the keyword fallback
refine_scene_parameters(existing_params, refinement_request, resp) ==
    LET r == refine_scene_parameters_try(existing_params, refinement_request, resp)
    IN  IF r.exc = "none" THEN r
        ELSE IF r.exc \in RequestExceptions
        THEN Ret(_fallback_refinement(existing_params, refinement_request))
        ELSE Ret(_fallback_refinement(existing_params, refinement_request))

\* the scene of a new file: no camera, no sun, the default world
NewScene ==
    [camera |-> FALSE, cameras |-> 0, lens |-> 50, cam_z |-> 0, cam_tilt |-> 0,
     suns |-> 0, sun_rot |-> <<0, 0, 0>>, sun_angle |-> 0,
     world_nodes |-> {"ShaderNodeBackground", "ShaderNodeOutputWorld"},
     world_links |-> {<<"ShaderNodeBackground", "ShaderNodeOutputWorld">>},
     world_image |-> "none",
     planes |-> 0, cards |-> 0, engine |-> "EEVEE", shading |-> "SOLID"]

NoOp == [op |-> "none", result |-> "none", validated |-> FALSE,
         threads_before |-> 0, returned |-> NoMap]

\* the add-on as register() leaves it, in a new scene
AppIdle ==
    /\ _last_scene_data = NoMap
    /\ custom_script_text = JNull
    /\ previz_refine_text = ""
    /\ previz_foreground_text = ""
    /\ previz_status = "Ready"
    /\ scene = NewScene
    /\ threads = <<>>
    /\ timers = <<>>
    /\ writes = {}
    /\ last_op = NoOp

\* no call of the director under test
DirectorIdle ==
    /\ d_stage = "none"
    /\ d_json_data = NoMap
    /\ d_exc = "none"

\* no answer received yet
NoResponse == [net |-> "none", data |-> JNull]

\* no stage of the foreground workflow has returned
NoUrls == [base |-> Ret(Absent), rmbg |-> Ret(Absent)]

\* no job of the image client runs
PollIdle ==
    /\ j_fn = "none"
    /\ j_pc = "idle"
    /\ j_polls = 0
    /\ j_url = Absent
    /\ j_sawTerminal = FALSE
    /\ j_ret = Ret(Absent)
    /\ j_init = NoResponse
    /\ j_last = NoResponse
    /\ j_seen = {}
    /\ disk = {}
    /\ f_stage = "none"
    /\ f_requested = {}
    /\ f_urls = NoUrls
    /\ f_ret = Ret(Absent)

\* no call of the scene parser is under way
ParserIdle ==
    /\ p_stage = "idle"
    /\ p_fn = "none"
    /\ p_resp = OkResp(JNull)
    /\ p_existing = NoMap
    /\ p_request = ""
    /\ p_out = Ret(NoMap)

(***************************************************************************)
(* SpecParser: get_scene_parameters and refine_scene_parameters applied    *)
(* to answers of the structured-prompt API and to parameters the add-on    *)
(* can hold.                                                               *)
(***************************************************************************)
\* the mappings a structured prompt decodes to
PromptMappings ==
    { NoMap,
      [camera_angle |-> JStr("Low Angle"), field_of_view |-> JStr("wide")],
      [short_description |-> JStr("A barn at dusk"),
       lighting |-> JDict([direction |-> JStr("left"), conditions |-> JStr("dusk")])],
      [lighting |-> JDict([direction |-> JStr("Back"), quality |-> JStr("hard")]),
       background_setting |-> JStr("barn")],
      [field_of_view |-> JNum],
      [short_description |-> JNull, lighting |-> JNull] }

\* the values a structured prompt decodes to that are no mapping
NonMappings ==
    { JNull, JNum, JStr("abc"), JStr(""), JList(<<>>),
      JList(<<JPair("lighting", JStr("x"))>>),
      JList(<<JStr("ab")>>),
      JList(<<JPair("camera_angle", JStr("Low Angle")), JNum>>) }

WithPrompt(sp) == OkResp(JDict([result |-> JDict([structured_prompt |-> sp])]))

\* answers whose structured prompt decodes to a mapping
MappingResponses == { WithPrompt(JText(JDict(m))) : m \in PromptMappings }

\* answers whose structured prompt is valid JSON for something else
NonMappingResponses == { WithPrompt(JText(v)) : v \in NonMappings }

\* the request or its HTTP status fails, or the body is no JSON
FailedResponses ==
    { [net |-> n, data |-> JNull] : n \in {"request_error", "http_error", "bad_body"} }

\* answers without result.structured_prompt
ShapelessResponses ==
    { OkResp(JDict(NoMap)), OkResp(JDict([error |-> JStr("quota")])),
      OkResp(JList(<<>>)), OkResp(JNum), OkResp(JNull),
      OkResp(JDict([result |-> JDict(NoMap)])),
      OkResp(JDict([result |-> JNull])),
      OkResp(JDict([result |-> JStr("structured_prompt missing")])) }

\* answers whose structured prompt is no JSON text
UndecodableResponses ==
    { WithPrompt(JStr("not json")), WithPrompt(JNull),
      WithPrompt(JDict([camera_angle |-> JStr("Low Angle")])) }

ParserResponses ==
    MappingResponses \cup NonMappingResponses \cup FailedResponses
        \cup ShapelessResponses \cup UndecodableResponses

\* the structured prompt an answer decodes to, when it does
DecodedOf(resp) == resp.data.map["result"].map["structured_prompt"].items[1]

\* parameters _last_scene_data can hold when Refine Scene runs
ExistingParams == { Merge(DEFAULT_PARAMETERS, m) : m \in PromptMappings }

RefinementRequests ==
    { "make the lights warmer", "Cooler and brighter", "low angle close up",
      "add a dog", "HARSH shadows, overhead, wide",
      "darker, softer, medium shot at eye level", "a swarm of bees",
      "Higher Angle" }

ParserInit ==
    /\ p_stage = "input"
    /\ p_resp \in ParserResponses
    /\ \/ /\ p_fn = "get_scene_parameters"
          /\ p_existing = NoMap
          /\ p_request = ""
       \/ /\ p_fn = "refine_scene_parameters"
          /\ p_existing \in ExistingParams
          /\ p_request \in RefinementRequests
    /\ p_out = Ret(NoMap)
    /\ PollIdle
    /\ AppIdle
    /\ DirectorIdle

CallGetSceneParameters ==
    /\ p_stage = "input"
    /\ p_fn = "get_scene_parameters"
    /\ p_stage' = "done"
    /\ p_out' = get_scene_parameters(p_resp)
    /\ UNCHANGED <<p_fn, p_resp, p_existing, p_request, pollVars, appVars, directorVars>>

CallRefineSceneParameters ==
    /\ p_stage = "input"
    /\ p_fn = "refine_scene_parameters"
    /\ p_stage' = "done"
    /\ p_out' = refine_scene_parameters(p_existing, p_request, p_resp)
    /\ UNCHANGED <<p_fn, p_resp, p_existing, p_request, pollVars, appVars, directorVars>>

ParserNext == CallGetSceneParameters \/ CallRefineSceneParameters

SpecParser == ParserInit /\ [][ParserNext]_vars

(***************************************************************************)
(* Claims about scene_parser.py, checked under SpecParser                  *)
(***************************************************************************)
GetDone == p_stage = "done" /\ p_fn = "get_scene_parameters"

RefineDone == p_stage = "done" /\ p_fn = "refine_scene_parameters"

\* C5 (as stated): get_scene_parameters never raises, and whenever the
\* request fails, the answer lacks result.structured_prompt, the structured
\* prompt is no valid JSON or does not decode to a mapping, it returns
\* DEFAULT_PARAMETERS.
C5_InvalidDataGivesDefaults ==
    (GetDone /\ p_resp \notin MappingResponses)
        => p_out = Ret(DEFAULT_PARAMETERS)

DefaultKeys == {"camera_angle", "lighting", "composition", "field_of_view"}

\* C6: every result of get_scene_parameters has the four default keys; when
\* the structured prompt decodes to a mapping the result is
\* DEFAULT_PARAMETERS overridden key by key with that mapping, every extra
\* key of the mapping kept.
C6_DefaultsOverridden ==
    GetDone =>
        /\ p_out.exc = "none"
        /\ DefaultKeys \subseteq DOMAIN p_out.val
        /\ p_resp \in MappingResponses =>
              LET m == DecodedOf(p_resp).map
              IN  /\ DOMAIN p_out.val = DefaultKeys \cup DOMAIN m
                  /\ \A k \in DOMAIN m : p_out.val[k] = m[k]
                  /\ \A k \in DefaultKeys \ DOMAIN m :
                        p_out.val[k] = DEFAULT_PARAMETERS[k]

\* C6 witness: a decoded mapping that overrides a default and brings an
\* extra key has been merged
C6_Witness ==
    /\ GetDone
    /\ p_resp \in MappingResponses
    /\ DOMAIN DecodedOf(p_resp).map \cap DefaultKeys # {}
    /\ DOMAIN DecodedOf(p_resp).map \ DefaultKeys # {}

\* C7: every key of existing_params is a key of the result of
\* refine_scene_parameters, whatever the API answers; when the answer
\* decodes to a mapping, every key the mapping lacks keeps its value.
C7_NoFieldLost ==
    RefineDone =>
        /\ p_out.exc = "none"
        /\ DOMAIN p_existing \subseteq DOMAIN p_out.val
        /\ p_resp \in MappingResponses =>
              \A k \in DOMAIN p_existing \ DOMAIN DecodedOf(p_resp).map :
                  p_out.val[k] = p_existing[k]

\* C7 witness: a refined mapping that lacks a key of existing_params and
\* changes another one has been merged
C7_Witness ==
    /\ RefineDone
    /\ p_resp \in MappingResponses
    /\ DOMAIN p_existing \ DOMAIN DecodedOf(p_resp).map \notin {{}, DefaultKeys}
    /\ \E k \in DOMAIN p_existing : p_out.val[k] # p_existing[k]

\* the answers on which refine_scene_parameters takes the keyword fallback
FallbackResponses ==
    FailedResponses \cup ShapelessResponses \cup UndecodableResponses
        \cup { WithPrompt(JText(v)) :
                 v \in { JNull, JNum, JStr("abc"),
                         JList(<<JPair("camera_angle", JStr("Low Angle")), JNum>>) } }

\* the recognised keywords, by the field they name
NamesTemperature(rl) ==
    Contains(rl, "warm") \/ Contains(rl, "cool") \/ Contains(rl, "cold")

NamesIntensity(rl) ==
    Contains(rl, "bright") \/ Contains(rl, "dim") \/ Contains(rl, "darker")

NamesQuality(rl) ==
    Contains(rl, "soft") \/ Contains(rl, "hard") \/ Contains(rl, "harsh")

NamesCameraAngle(rl) ==
    \/ Contains(rl, "low angle") \/ Contains(rl, "lower angle")
    \/ Contains(rl, "high angle") \/ Contains(rl, "higher angle")
    \/ Contains(rl, "overhead") \/ Contains(rl, "eye level")

NamesFieldOfView(rl) ==
    Contains(rl, "close") \/ Contains(rl, "wide") \/ Contains(rl, "medium")

NamesAnything(rl) ==
    \/ NamesTemperature(rl) \/ NamesIntensity(rl) \/ NamesQuality(rl)
    \/ NamesCameraAngle(rl) \/ NamesFieldOfView(rl)

\* params["lighting"][sub], Absent when lighting is no mapping or lacks sub
LightingField(params, sub) ==
    IF "lighting" \in DOMAIN params /\ params["lighting"].kind = "dict"
    THEN Get(params["lighting"].map, sub, Absent)
    ELSE Absent

KeywordFields == {"temperature", "intensity", "quality"}

\* what of lighting no keyword names is the same in e and r: the other
\* entries of a mapping; a value that is no mapping is kept, or kept as the
\* direction of a mapping that holds keyword fields only
LightingRestKept(e, r) ==
    IF e["lighting"].kind = "dict"
    THEN /\ r["lighting"].kind = "dict"
         /\ DOMAIN r["lighting"].map \ KeywordFields
                = DOMAIN e["lighting"].map \ KeywordFields
         /\ \A sub \in DOMAIN e["lighting"].map \ KeywordFields :
                r["lighting"].map[sub] = e["lighting"].map[sub]
    ELSE \/ r["lighting"] = e["lighting"]
         \/ /\ r["lighting"].kind = "dict"
            /\ DOMAIN r["lighting"].map \ KeywordFields = {"direction"}
            /\ r["lighting"].map["direction"] = e["lighting"]

\* everything but lighting quality: only fields named by a keyword of the
\* request differ between e and r
OthersOnlyIfNamed(e, r, rl) ==
    /\ DOMAIN r = DOMAIN e
    /\ \A k \in DOMAIN e \ {"lighting", "camera_angle", "field_of_view"} :
          r[k] = e[k]
    /\ ~NamesCameraAngle(rl) => r["camera_angle"] = e["camera_angle"]
    /\ ~NamesFieldOfView(rl) => r["field_of_view"] = e["field_of_view"]
    /\ LightingRestKept(e, r)
    /\ ~NamesTemperature(rl) =>
          LightingField(r, "temperature") = LightingField(e, "temperature")
    /\ ~NamesIntensity(rl) =>
          LightingField(r, "intensity") = LightingField(e, "intensity")
    /\ ~NamesAnything(rl) => r = e

PyGet(v, key) ==
    IF v.kind = "dict" THEN Ret(Get(v.map, key, JNull))
    ELSE Raise("AttributeError")

\* bool(v)
Truthy(v) ==
    CASE v.kind = "str" -> v.str # ""
      [] v.kind = "list" -> v.items # <<>>
      [] v.kind = "dict" -> DOMAIN v.map # {}
      [] v.kind \in {"null", "absent"} -> FALSE
      [] OTHER -> TRUE

\* a or b
PyOr(a, b) == IF Truthy(a) THEN a ELSE b

\* v[0]
Index0(v) ==
    CASE v.kind = "list" ->
            IF v.items = <<>> THEN Raise("IndexError") ELSE Ret(v.items[1])
      [] v.kind = "str" ->
            IF v.str = "" THEN Raise("IndexError")
            ELSE Ret(JStr(SubSeq(v.str, 1, 1)))
      [] v.kind = "dict" -> Raise("KeyError")
      [] OTHER -> Raise("TypeError")

\* what one pass through a poll loop does
Continue == [act |-> "continue", val |-> JNull]

Break(v) == [act |-> "break", val |-> v]

Return(v) == [act |-> "return", val |-> v]

\* requests.get + raise_for_status + status_response.json() + .get("status")
StatusOf(sr) ==
    IF sr.net # "ok" THEN Raise("RequestException")
    ELSE PyGet(sr.data, "status")

\* _make_api_call, lines 112-124: the COMPLETED branch; an exception is
\* caught at line 129 and the loop goes on
MakeCompleted(status_data) ==
    LET hasResult == "result" \in DOMAIN status_data.map
        result == status_data.map["result"]
        c1 == IF hasResult THEN PyIn("image_url", result) ELSE "false"
        c2 == IF hasResult THEN PyIn("urls", result) ELSE "false"
    IN  IF c1 = "TypeError" THEN Continue
        ELSE IF c1 = "true"
        THEN LET x == GetItem(result, "image_url")
             IN  IF x.exc # "none" THEN Continue ELSE Break(x.val)
        ELSE IF c2 = "true"
        THEN LET u == GetItem(result, "urls")
             IN  IF u.exc # "none" THEN Continue
                 ELSE LET f == Index0(u.val)
                      IN  IF f.exc # "none" THEN Continue ELSE Break(f.val)
        ELSE IF "image_url" \in DOMAIN status_data.map
        THEN Break(status_data.map["image_url"])
        ELSE Return(JNull)

\* a loop of _make_api_call that polls on after a FAILED status
MakeIteration_FailedGoesOn(sr) ==
    LET st == StatusOf(sr)
    IN  IF st.exc # "none" THEN Continue
        ELSE IF st.val = JStr("COMPLETED") THEN MakeCompleted(sr.data)
        ELSE Continue

\* _make_api_call, lines 106-130: one pass through the loop
MakeIteration(sr) ==
    LET st == StatusOf(sr)
    IN  IF st.exc # "none" THEN Continue
        ELSE IF st.val = JStr("COMPLETED") THEN MakeCompleted(sr.data)
        ELSE IF st.val = JStr("FAILED") THEN Return(JNull)
        ELSE Continue

\* result.get("urls", [None])[0] if result.get("urls") else None
FirstUrl(d) ==
    LET urls == Get(d.map, "urls", JNull)
    IN  IF Truthy(urls) THEN Index0(urls) ELSE Ret(JNull)

\* _poll_for_image_result, lines 283-291: the COMPLETED branch
PollCompleted(status_data) ==
    LET hasResult == "result" \in DOMAIN status_data.map
        result == status_data.map["result"]
    IN  IF hasResult /\ result.kind = "dict"
        THEN LET a == Get(result.map, "image_url", JNull)
                 b == FirstUrl(result)
             IN  IF Truthy(a) THEN Return(a)
                 ELSE IF b.exc # "none" THEN Continue
                 ELSE Return(b.val)
        ELSE IF hasResult /\ result.kind = "list" /\ Len(result.items) > 0
        THEN Return(result.items[1])
        ELSE Return(Get(status_data.map, "image_url", JNull))

\* _poll_for_image_result, lines 277-298: one pass through the loop
PollIteration(sr) ==
    LET st == StatusOf(sr)
    IN  IF st.exc # "none" THEN Continue
        ELSE IF st.val = JStr("COMPLETED") THEN PollCompleted(sr.data)
        ELSE IF st.val = JStr("FAILED") THEN Return(JNull)
        ELSE Continue

\* _remove_background, lines 350-353 and 366-369: the URL of a finished job
RmbgUrl(data) ==
    LET result == Get(data.map, "result", JDict(NoMap))
    IN  IF result.kind = "dict"
        THEN PyOr(Get(result.map, "image_url", JNull),
                  Get(result.map, "result_url", JNull))
        ELSE PyOr(Get(data.map, "image_url", JNull),
                  Get(data.map, "result_url", JNull))

\* a loop of _remove_background that a failed status request ends
RmbgIteration_FailureEnds(sr) ==
    LET st == StatusOf(sr)
    IN  IF st.exc # "none" THEN Return(JNull)
        ELSE IF st.val = JStr("COMPLETED") THEN Return(RmbgUrl(sr.data))
        ELSE IF st.val = JStr("FAILED") THEN Return(JNull)
        ELSE Continue

\* _remove_background, lines 343-360: one pass through the loop
RmbgIteration(sr) ==
    LET st == StatusOf(sr)
    IN  IF st.exc # "none" THEN Continue
        ELSE IF st.val = JStr("COMPLETED") THEN Return(RmbgUrl(sr.data))
        ELSE IF st.val = JStr("FAILED") THEN Return(JNull)
        ELSE Continue

Iteration(fn, sr) ==
    CASE fn = "_make_api_call" -> MakeIteration(sr)
      [] fn = "_poll_for_image_result" -> PollIteration(sr)
      [] fn = "_remove_background" -> RmbgIteration(sr)

\* max_retries of _make_api_call
MakeMaxRetries == 60

\* max_retries of _poll_for_image_result
PollMaxRetries == 60

\* max_retries of _remove_background
RmbgMaxRetries == 30

max_retries(fn) ==
    CASE fn = "_make_api_call" -> MakeMaxRetries
      [] fn = "_poll_for_image_result" -> PollMaxRetries
      [] fn = "_remove_background" -> RmbgMaxRetries

LoopGoesOn_OneMore(fn, polls) == polls <= max_retries(fn)

\* for _ in range(max_retries): another pass follows polls passes
LoopGoesOn(fn, polls) == polls < max_retries(fn)

\* _make_api_call, lines 136-144: the URL of a synchronous answer
MakeSync(data) ==
    LET c0 == PyIn("result", data)
        result == GetItem(data, "result")
    IN  IF c0 = "true" /\ result.exc # "none" THEN Raise(result.exc)
        ELSE IF c0 = "true" /\ result.val.kind = "list" /\ Len(result.val.items) > 0
        THEN Ret(result.val.items[1])
        ELSE IF c0 = "true" /\ result.val.kind = "dict"
        THEN Ret(PyOr(Get(result.val.map, "url", JNull),
                      Get(result.val.map, "image_url", JNull)))
        ELSE IF PyIn("image_url", data) = "true" THEN GetItem(data, "image_url")
        ELSE IF PyIn("urls", data) = "true"
        THEN LET u == GetItem(data, "urls")
             IN  IF u.exc # "none" THEN Raise(u.exc) ELSE Index0(u.val)
        ELSE Ret(JNull)

\* _poll_for_image_result, lines 304-310: the URL of a synchronous answer
PollSync(data) ==
    LET c0 == PyIn("result", data)
        result == GetItem(data, "result")
    IN  IF c0 = "true" /\ result.exc # "none" THEN Raise(result.exc)
        ELSE IF c0 = "true" /\ result.val.kind = "dict"
        THEN Ret(PyOr(Get(result.val.map, "url", JNull),
                      Get(result.val.map, "image_url", JNull)))
        ELSE IF c0 = "true" /\ result.val.kind = "list" /\ Len(result.val.items) > 0
        THEN Ret(result.val.items[1])
        ELSE IF data.kind # "dict" THEN Raise("AttributeError")
        ELSE LET a == Get(data.map, "image_url", JNull)
             IN  IF Truthy(a) THEN Ret(a) ELSE FirstUrl(data)

\* _remove_background, lines 366-369: the URL of a synchronous answer
RmbgSync(data) ==
    IF data.kind # "dict" THEN Raise("AttributeError") ELSE Ret(RmbgUrl(data))

Sync(fn, data) ==
    CASE fn = "_make_api_call" -> MakeSync(data)
      [] fn = "_poll_for_image_result" -> PollSync(data)
      [] fn = "_remove_background" -> RmbgSync(data)

(***************************************************************************)
(* SpecPoll: one call of _make_api_call, _poll_for_image_result or         *)
(* _remove_background against every answer the image service can give.     *)
(***************************************************************************)
Url1 == JStr("https://cdn/img1")

Url2 == JStr("https://cdn/img2")

Url3 == JStr("https://cdn/img3")

\* the answers to the initial POST (for _poll_for_image_result: its data)
InitialResponses ==
    { [net |-> "request_error", data |-> JNull],
      [net |-> "http_error", data |-> JNull],
      [net |-> "bad_body", data |-> JNull],
      OkResp(JDict([status_url |-> JStr("https://api/status/1")])),
      OkResp(JDict([result |-> JList(<<Url1>>)])),
      OkResp(JDict([result |-> JList(<<>>), image_url |-> Url1])),
      OkResp(JDict([result |-> JDict([url |-> Url1])])),
      OkResp(JDict([result |-> JDict([image_url |-> Url2])])),
      OkResp(JDict([result |-> JDict([result_url |-> Url3])])),
      OkResp(JDict([result |-> JNull, image_url |-> Url1])),
      OkResp(JDict([image_url |-> Url1])),
      OkResp(JDict([result_url |-> Url3])),
      OkResp(JDict([urls |-> JList(<<Url2>>)])),
      OkResp(JDict([urls |-> JList(<<>>)])),
      OkResp(JDict([image_url |-> JStr("")])),
      OkResp(JDict(NoMap)),
      OkResp(JList(<<>>)),
      OkResp(JNum) }

StatusBody(status, rest) == OkResp(JDict(("status" :> JStr(status)) @@ rest))

\* the answers to a status request
StatusResponses ==
    { [net |-> "request_error", data |-> JNull],
      [net |-> "http_error", data |-> JNull],
      [net |-> "bad_body", data |-> JNull],
      OkResp(JList(<<>>)),
      OkResp(JDict(NoMap)),
      StatusBody("PENDING", NoMap),
      StatusBody("IN_PROGRESS", NoMap),
      StatusBody("FAILED", [error |-> JStr("nsfw")]),
      StatusBody("COMPLETED", NoMap),
      StatusBody("COMPLETED", [result |-> JDict([image_url |-> Url1])]),
      StatusBody("COMPLETED", [result |-> JDict([urls |-> JList(<<Url2>>)])]),
      StatusBody("COMPLETED", [result |-> JDict([urls |-> JList(<<>>)])]),
      StatusBody("COMPLETED", [result |-> JDict([urls |-> JNum])]),
      StatusBody("COMPLETED", [result |-> JDict([image_url |-> JNull])]),
      StatusBody("COMPLETED",
                 [result |-> JDict([image_url |-> JStr(""),
                                    urls |-> JList(<<Url2>>)])]),
      StatusBody("COMPLETED", [result |-> JDict([result_url |-> Url3])]),
      StatusBody("COMPLETED", [result |-> JList(<<Url1>>)]),
      StatusBody("COMPLETED", [result |-> JNull]),
      StatusBody("COMPLETED", [result |-> JDict(NoMap), image_url |-> Url1]),
      StatusBody("COMPLETED", [image_url |-> Url1]),
      StatusBody("COMPLETED", [result_url |-> Url3]) }

PollFunctions == {"_make_api_call", "_poll_for_image_result", "_remove_background"}

\* the status a status answer carries is COMPLETED or FAILED
IsTerminal(sr) ==
    /\ StatusOf(sr).exc = "none"
    /\ StatusOf(sr).val \in {JStr("COMPLETED"), JStr("FAILED")}

\* an exception in the body of fn: _make_api_call (lines 155-160) and
\* _remove_background (lines 371-373) return None, _poll_for_image_result
\* has no handler
Caught(fn, exc) ==
    IF fn = "_poll_for_image_result" THEN Raise(exc) ELSE Ret(JNull)

JobReturns(r) ==
    /\ j_pc' = "returned"
    /\ j_ret' = r

\* _make_api_call, lines 146-153: no URL returns None, a URL is downloaded
MakeResolved(image_url) ==
    IF Truthy(image_url)
    THEN /\ j_pc' = "download"
         /\ j_url' = image_url
         /\ UNCHANGED j_ret
    ELSE /\ JobReturns(Ret(JNull))
         /\ UNCHANGED j_url

\* a URL (or none) has been found by fn
Resolved(fn, url) ==
    IF fn = "_make_api_call" THEN MakeResolved(url)
    ELSE JobReturns(Ret(url)) /\ UNCHANGED j_url

\* what a download can meet: the request fails, the copy of the body into
\* the temp file fails, or the file is written
DownloadOutcomes == {"request_error", "copy_error", "ok"}

\* the download of url into the temp file path, lines 166-184 and 380-394:
\* the path or None, and the files mkstemp has created
DownloadTo(url, path, got) ==
    IF url.kind # "str" \/ got = "request_error"
    THEN [ret |-> JNull, created |-> {}]
    ELSE IF got = "copy_error"
    THEN [ret |-> JNull, created |-> {path}]
    ELSE [ret |-> JStr(path), created |-> {path}]

_download_image(url, got) == DownloadTo(url, "/tmp/previz_bg_1.exr", got)

_download_image_as_png(url, got) ==
    DownloadTo(url, "/tmp/previz_foreground_1.png", got)

\* what a status answer adds to the history of the job
Seen(sr) ==
    IF sr.net # "ok" THEN {"request failed"}
    ELSE IF StatusOf(sr).exc = "none"
            /\ StatusOf(sr).val \in {JStr("COMPLETED"), JStr("FAILED")}
    THEN {StatusOf(sr).val.str}
    ELSE {}

\* one function is called on its own, or _generate_foreground_sync is
PollInit ==
    /\ \/ /\ f_stage = "none"
          /\ j_fn \in PollFunctions
          /\ j_pc = "start"
       \/ /\ f_stage = "post"
          /\ j_fn = "_poll_for_image_result"
          /\ j_pc = "idle"
    /\ j_polls = 0
    /\ j_url = Absent
    /\ j_sawTerminal = FALSE
    /\ j_ret = Ret(Absent)
    /\ j_init = NoResponse
    /\ j_last = NoResponse
    /\ j_seen = {}
    /\ disk = {}
    /\ f_requested = {}
    /\ f_urls = NoUrls
    /\ f_ret = Ret(Absent)
    /\ ParserIdle
    /\ AppIdle
    /\ DirectorIdle

\* the initial answer: a failed request, an asynchronous job to poll, or a
\* synchronous result
JobStart ==
    /\ j_pc = "start"
    /\ \E resp \in InitialResponses :
          /\ j_fn = "_poll_for_image_result" => resp.net = "ok"
          /\ j_init' = resp
          /\ LET data == PostJson(resp)
                 async == PyIn("status_url", data.val)
                 url == Sync(j_fn, data.val)
             IN  IF data.exc # "none"
                 THEN JobReturns(Caught(j_fn, data.exc)) /\ UNCHANGED j_url
                 ELSE IF async = "TypeError"
                 THEN JobReturns(Caught(j_fn, "TypeError")) /\ UNCHANGED j_url
                 ELSE IF async = "true"
                 THEN j_pc' = "poll" /\ UNCHANGED <<j_url, j_ret>>
                 ELSE IF url.exc # "none"
                 THEN JobReturns(Caught(j_fn, url.exc)) /\ UNCHANGED j_url
                 ELSE Resolved(j_fn, url.val)
    /\ f_requested' = IF f_stage = "rmbg" THEN f_requested \cup {"rmbg"}
                      ELSE f_requested
    /\ UNCHANGED <<j_fn, j_polls, j_sawTerminal, j_last, j_seen, disk,
                   f_stage, f_urls, f_ret, parserVars, appVars, directorVars>>

\* one pass through the poll loop: sleep, status request, its answer
PollStep ==
    /\ j_pc = "poll"
    /\ LoopGoesOn(j_fn, j_polls)
    /\ j_polls' = j_polls + 1
    /\ \E sr \in StatusResponses :
          /\ j_sawTerminal' = (j_sawTerminal \/ IsTerminal(sr))
          /\ j_last' = sr
          /\ j_seen' = j_seen \cup Seen(sr)
          /\ LET out == Iteration(j_fn, sr)
             IN  IF out.act = "continue"
                 THEN IF LoopGoesOn(j_fn, j_polls + 1)
                      THEN UNCHANGED <<j_pc, j_url, j_ret>>
                      ELSE JobReturns(Ret(JNull)) /\ UNCHANGED j_url
                 ELSE IF out.act = "break"
                 THEN MakeResolved(out.val)
                 ELSE JobReturns(Ret(out.val)) /\ UNCHANGED j_url
    /\ UNCHANGED <<j_fn, j_init, disk, fgVars, parserVars, appVars, directorVars>>

\* _make_api_call, line 153: return _download_image(image_url)
Download ==
    /\ j_pc = "download"
    /\ \E got \in DownloadOutcomes :
          LET d == _download_image(j_url, got)
          IN  /\ JobReturns(Ret(d.ret))
              /\ disk' = disk \cup d.created
    /\ UNCHANGED <<j_fn, j_polls, j_url, j_sawTerminal, j_init, j_last, j_seen,
                   fgVars, parserVars, appVars, directorVars>>
\* the answer to the base-image request of _generate_foreground_sync
PostOutcomes == {"ok", "request_error", "http_error", "bad_body"}

\* a workflow that goes on with whatever a stage returned
StageGoesOn_AnyResult(r) == r.exc = "none"

\* if not image_url / if not transparent_url: the workflow goes on to the
\* next stage only with a result that was returned and is true
StageGoesOn(r) == r.exc = "none" /\ Truthy(r.val)

\* the exception that ends the workflow after the stage returned r
StageFailure(stage, r) ==
    IF r.exc # "none" THEN Raise(r.exc)
    ELSE IF stage = "base" THEN Raise("Failed to generate base image")
    ELSE Raise("Failed to remove background")

\* image_url[:50], line 325, before the try block of _remove_background
Sliceable(v) == v.kind \in {"str", "list"}

\* the workflow ends with the exception e, logged and raised again
ForegroundRaises(e) ==
    /\ f_stage' = "done"
    /\ f_ret' = e

\* _generate_foreground_sync, lines 236-238: the base-image request
ForegroundPost ==
    /\ f_stage = "post"
    /\ f_requested' = f_requested \cup {"base"}
    /\ \E post \in PostOutcomes :
          IF post = "ok"
          THEN /\ f_stage' = "base"
               /\ j_pc' = "start"
               /\ UNCHANGED f_ret
          ELSE /\ ForegroundRaises(PostJson([net |-> post, data |-> JNull]))
               /\ UNCHANGED j_pc
    /\ UNCHANGED <<j_fn, j_polls, j_url, j_sawTerminal, j_ret, j_init, j_last, j_seen,
                   disk, f_urls, parserVars, appVars, directorVars>>

\* lines 241-246: _poll_for_image_result has returned; without a URL the
\* workflow raises, with one _remove_background is called
ForegroundAfterBase ==
    /\ f_stage = "base"
    /\ j_pc = "returned"
    /\ f_urls' = [f_urls EXCEPT !.base = j_ret]
    /\ IF ~StageGoesOn(j_ret)
       THEN /\ ForegroundRaises(StageFailure("base", j_ret))
            /\ UNCHANGED <<j_fn, j_pc, j_polls, j_sawTerminal, j_ret, j_init,
                           j_last, j_seen>>
       ELSE IF ~Sliceable(j_ret.val)
       THEN /\ ForegroundRaises(Raise("TypeError"))
            /\ UNCHANGED <<j_fn, j_pc, j_polls, j_sawTerminal, j_ret, j_init,
                           j_last, j_seen>>
       ELSE /\ f_stage' = "rmbg"
            /\ j_fn' = "_remove_background"
            /\ j_pc' = "start"
            /\ j_polls' = 0
            /\ j_sawTerminal' = FALSE
            /\ j_ret' = Ret(Absent)
            /\ j_init' = NoResponse
            /\ j_last' = NoResponse
            /\ j_seen' = {}
            /\ UNCHANGED f_ret
    /\ UNCHANGED <<j_url, disk, f_requested, parserVars, appVars, directorVars>>

\* lines 251-254: _remove_background has returned; without a URL the
\* workflow raises, with one the download follows
ForegroundAfterRmbg ==
    /\ f_stage = "rmbg"
    /\ j_pc = "returned"
    /\ f_urls' = [f_urls EXCEPT !.rmbg = j_ret]
    /\ IF StageGoesOn(j_ret)
       THEN f_stage' = "download" /\ UNCHANGED f_ret
       ELSE ForegroundRaises(StageFailure("rmbg", j_ret))
    /\ UNCHANGED <<j_fn, j_pc, j_polls, j_url, j_sawTerminal, j_ret, j_init,
                   j_last, j_seen, disk, f_requested, parserVars, appVars, directorVars>>

\* line 257: return _download_image_as_png(transparent_url)
ForegroundDownload ==
    /\ f_stage = "download"
    /\ f_requested' = f_requested \cup {"download"}
    /\ \E got \in DownloadOutcomes :
          LET d == _download_image_as_png(f_urls.rmbg.val, got)
          IN  /\ f_ret' = Ret(d.ret)
              /\ disk' = disk \cup d.created
    /\ f_stage' = "done"
    /\ UNCHANGED <<j_fn, j_pc, j_polls, j_url, j_sawTerminal, j_ret, j_init,
                   j_last, j_seen, f_urls, parserVars, appVars, directorVars>>

PollNext ==
    \/ JobStart
    \/ PollStep
    \/ Download
    \/ ForegroundPost
    \/ ForegroundAfterBase
    \/ ForegroundAfterRmbg
    \/ ForegroundDownload

SpecPoll == PollInit /\ [][PollNext]_vars

\* C1: every poll loop stops at its retry ceiling: at most 60 status requests
\* (_make_api_call, _poll_for_image_result) or 30 (_remove_background) are
\* issued, and a loop that reaches the ceiling without having received a
\* COMPLETED or FAILED status returns None.
C1_RetryCeiling ==
    /\ j_fn \in {"_make_api_call", "_poll_for_image_result"} => j_polls <= 60
    /\ j_fn = "_remove_background" => j_polls <= 30
    /\ (j_polls >= max_retries(j_fn) /\ ~j_sawTerminal) =>
          /\ j_pc = "returned"
          /\ j_ret = Ret(JNull)

\* C1 witness: _remove_background gave up after 30 status requests, none of
\* which told COMPLETED or FAILED
C1_Witness ==
    /\ j_fn = "_remove_background"
    /\ j_polls = 30
    /\ ~j_sawTerminal
    /\ j_ret = Ret(JNull)

\* a download by _make_api_call or by the foreground workflow returned None
DownloadReturnedNone ==
    \/ /\ j_fn = "_make_api_call"
       /\ j_pc = "returned"
       /\ j_url # Absent
       /\ j_ret = Ret(JNull)
    \/ /\ f_stage = "done"
       /\ "download" \in f_requested
       /\ f_ret = Ret(JNull)

\* C11: when _download_image or _download_image_as_png returns None, also
\* after the copy of the response body into the temp file raised, no temp
\* file it created remains on disk.
C11_NoTempFileLeft == DownloadReturnedNone => disk = {}

\* C14: in all three poll loops, once a status answer with status COMPLETED
\* has been received the job issues no further status request, whatever
\* else that answer holds.
C14_CompletedIsTerminal == "COMPLETED" \in j_seen => j_pc # "poll"

\* C15: in all three poll loops the first status answer with status FAILED
\* makes the function return None at once: no further status request, no
\* download.
C15_FailedIsTerminal ==
    "FAILED" \in j_seen =>
        /\ j_pc = "returned"
        /\ j_ret = Ret(JNull)
        /\ j_url = Absent
        /\ disk = {}
        /\ "download" \notin f_requested

\* _make_api_call has returned None on a FAILED status that followed
\* other status answers
C15_Witness ==
    /\ j_fn = "_make_api_call"
    /\ "FAILED" \in j_seen
    /\ j_polls >= 2
    /\ j_pc = "returned"
    /\ j_ret = Ret(JNull)

\* C16: a status request that fails (network exception, HTTP error status,
\* undecodable body) uses up exactly one attempt and does not end the job:
\* polling continues, unless that attempt was the last one of the ceiling,
\* after which the function returns None.
C16_FailedRequestUsesOneAttempt ==
    [][(j_pc = "poll" /\ j_polls' # j_polls /\ j_last'.net # "ok") =>
          /\ j_polls' = j_polls + 1
          /\ \/ j_pc' = "poll"
             \/ /\ j_polls' = max_retries(j_fn)
                /\ j_pc' = "returned"
                /\ j_ret' = Ret(JNull)]_vars

\* a job with a failed status request has gone on to a COMPLETED answer
\* and has returned its URL
C16_Witness ==
    /\ j_fn = "_poll_for_image_result"
    /\ {"request failed", "COMPLETED"} \subseteq j_seen
    /\ j_pc = "returned"
    /\ j_ret = Ret(Url1)

\* the URL fn resolves from the initial answer init and the status answer
\* last: the URL, JNull for none, Absent while the loop goes on
UrlGiven(fn, init, last) ==
    LET data == PostJson(init)
        async == PyIn("status_url", data.val)
        url == Sync(fn, data.val)
        out == Iteration(fn, last)
        Url(v) == IF Truthy(v) THEN v ELSE JNull
    IN  IF data.exc # "none" \/ async = "TypeError" THEN JNull
        ELSE IF async = "true"
        THEN IF last = NoResponse \/ out.act = "continue" THEN Absent
             ELSE Url(out.val)
        ELSE IF url.exc # "none" THEN JNull
        ELSE Url(url.val)

\* C17: from the same initial answer and the same status answer,
\* _poll_for_image_result returns the URL that _make_api_call goes on to
\* download, and one finds no URL exactly when the other finds none.
C17_SameUrlResolution ==
    (j_fn \in {"_make_api_call", "_poll_for_image_result"} /\ j_init.net = "ok") =>
        UrlGiven("_make_api_call", j_init, j_last)
            = UrlGiven("_poll_for_image_result", j_init, j_last)

\* the stage has ended and has given no URL
GaveNoUrl(r) == r # Ret(Absent) /\ (r.exc # "none" \/ ~Truthy(r.val))

\* the stage has ended and has given a URL
GaveUrl(r) == r # Ret(Absent) /\ r.exc = "none" /\ Truthy(r.val)

\* C18: the foreground workflow sends the background-removal request only
\* after the base-image stage gave a URL and attempts the download only
\* after background removal gave a URL; after a stage that gave no URL no
\* later stage sends a request and the workflow has ended with an exception.
C18_StagesInOrder ==
    /\ "rmbg" \in f_requested => "base" \in f_requested /\ GaveUrl(f_urls.base)
    /\ "download" \in f_requested => "rmbg" \in f_requested /\ GaveUrl(f_urls.rmbg)
    /\ GaveNoUrl(f_urls.base) =>
          f_requested = {"base"} /\ f_stage = "done" /\ f_ret.exc # "none"
    /\ GaveNoUrl(f_urls.rmbg) =>
          f_requested = {"base", "rmbg"} /\ f_stage = "done" /\ f_ret.exc # "none"

\* the three stages have run and the transparent image is on disk
C18_Witness ==
    /\ f_stage = "done"
    /\ f_requested = {"base", "rmbg", "download"}
    /\ f_ret = Ret(JStr("/tmp/previz_foreground_1.png"))
    /\ disk = {"/tmp/previz_foreground_1.png"}

(***************************************************************************)
(* director.py: the scene is a record of what the functions read and write *)
(***************************************************************************)
\* camera.data.lens = lens_map.get(fov_str, 50.0)
lens_map(fov_str) ==
    CASE fov_str \in {"wide", "wide shot"} -> 24
      [] fov_str \in {"standard", "normal"} -> 50
      [] fov_str \in {"telephoto", "close up"} -> 85
      [] OTHER -> 50

\* what a director function leaves: the scene, and the exception it raised
Done(s) == [scene |-> s, exc |-> "none"]

Failed(s, e) == [scene |-> s, exc |-> e]

\* lines 9-13: get or create the camera
WithCamera(s) ==
    IF s.camera THEN s
    ELSE [s EXCEPT !.camera = TRUE, !.cameras = @ + 1, !.cam_z = 20]

\* the presets with the test for high and overhead before the test for low
CameraPreset_HighFirst(s, angle_str) ==
    IF Contains(angle_str, "high") \/ Contains(angle_str, "overhead")
    THEN [s EXCEPT !.cam_z = 50, !.cam_tilt = 45]
    ELSE IF Contains(angle_str, "low")
    THEN [s EXCEPT !.cam_z = 5, !.cam_tilt = 80]
    ELSE [s EXCEPT !.cam_z = 17, !.cam_tilt = 90]

\* lines 39-48: height in tenths of a metre, tilt in degrees
CameraPreset(s, angle_str) ==
    IF Contains(angle_str, "low")
    THEN [s EXCEPT !.cam_z = 5, !.cam_tilt = 80]
    ELSE IF Contains(angle_str, "high") \/ Contains(angle_str, "overhead")
    THEN [s EXCEPT !.cam_z = 50, !.cam_tilt = 45]
    ELSE [s EXCEPT !.cam_z = 17, !.cam_tilt = 90]

\* apply_camera_settings: .lower() of a value that is no str raises
\* AttributeError, after the writes before it
apply_camera_settings(s, json_data) ==
    LET s1 == WithCamera(s)
        fov == Get(json_data, "field_of_view", JStr("normal"))
        s2 == [s1 EXCEPT !.lens = lens_map(Lower(fov.str))]
        angle == Get(json_data, "camera_angle", JStr("eye level"))
    IN  IF fov.kind # "str" THEN Failed(s1, "AttributeError")
        ELSE IF angle.kind # "str" THEN Failed(s2, "AttributeError")
        ELSE Done(CameraPreset(s2, Lower(angle.str)))

\* lines 55-63: find or create the sun
WithSun(s) == IF s.suns > 0 THEN s ELSE [s EXCEPT !.suns = 1]

\* lines 80-89: rotation_euler in degrees
SunRotation(direction_str) ==
    IF Contains(direction_str, "left") THEN <<45, 0, 90>>
    ELSE IF Contains(direction_str, "right") THEN <<45, 0, -90>>
    ELSE IF Contains(direction_str, "back") \/ Contains(direction_str, "silhouette")
    THEN <<-45, 0, 0>>
    ELSE <<45, 10, 0>>

\* lines 95-100: data.angle in tenths of a radian
SunAngle(quality_str) ==
    IF Contains(quality_str, "hard") \/ Contains(quality_str, "harsh") THEN 0
    ELSE IF Contains(quality_str, "soft") \/ Contains(quality_str, "diffuse") THEN 5
    ELSE 1

\* apply_lighting_settings
apply_lighting_settings(s, json_data) ==
    LET s1 == WithSun(s)
        given == Get(json_data, "lighting", JDict(NoMap))
        lighting == IF given.kind = "str"
                    THEN JDict([direction |-> given, quality |-> JStr("soft")])
                    ELSE given
        direction == Get(lighting.map, "direction", JStr("natural"))
        quality == Get(lighting.map, "quality", JStr("soft"))
    IN  IF lighting.kind # "dict" THEN Failed(s1, "AttributeError")
        ELSE IF direction.kind # "str" \/ quality.kind # "str"
        THEN Failed(s1, "AttributeError")
        ELSE Done([s1 EXCEPT !.sun_rot = SunRotation(Lower(direction.str)),
                             !.sun_angle = SunAngle(Lower(quality.str))])

\* the camera settings, then the lighting settings, as both operators of
\* the add-on apply them; the first exception ends the operator
ApplyDirector(s, json_data) ==
    LET cam == apply_camera_settings(s, json_data)
    IN  IF cam.exc # "none" THEN cam
        ELSE apply_lighting_settings(cam.scene, json_data)

BackdropNodes ==
    {"ShaderNodeTexCoord", "ShaderNodeMapping", "ShaderNodeTexImage",
     "ShaderNodeBackground", "ShaderNodeOutputWorld"}

BackdropLinks ==
    { <<"ShaderNodeTexCoord", "ShaderNodeMapping">>,
      <<"ShaderNodeMapping", "ShaderNodeTexImage">>,
      <<"ShaderNodeTexImage", "ShaderNodeBackground.Color">>,
      <<"ShaderNodeTexImage", "ShaderNodeBackground.Strength">>,
      <<"ShaderNodeBackground", "ShaderNodeOutputWorld">> }

\* setup_world_background: the node tree is cleared and three nodes are
\* made before the image is loaded; a failed load returns there
setup_world_background(s, image_path, loads) ==
    IF loads
    THEN [s EXCEPT !.world_nodes = BackdropNodes,
                   !.world_links = BackdropLinks,
                   !.world_image = image_path]
    ELSE [s EXCEPT !.world_nodes = {"ShaderNodeTexCoord", "ShaderNodeMapping",
                                    "ShaderNodeTexImage"},
                   !.world_links = {},
                   !.world_image = "none"]

\* create_shadow_catcher_plane: one more plane, Cycles as render engine
create_shadow_catcher_plane(s) ==
    [s EXCEPT !.planes = @ + 1, !.engine = "CYCLES"]

\* space.shading.type = 'RENDERED' in every 3D viewport
ShadeRendered(s) == [s EXCEPT !.shading = "RENDERED"]

\* import_image_as_card: None when the image does not load, else a new card
import_image_as_card(s, image_path, loads) ==
    IF loads THEN [s EXCEPT !.cards = @ + 1] ELSE s

(***************************************************************************)
(* cinematographer.py: the two workers                                     *)
(***************************************************************************)
\* the parts of the prompt, lines 46-76: the values appended, of any type
PromptParts(scene_data) ==
    LET base == IF "short_description" \in DOMAIN scene_data
                THEN <<scene_data["short_description"]>>
                ELSE IF "prompt" \in DOMAIN scene_data
                THEN <<scene_data["prompt"]>>
                ELSE <<>>
        lighting == IF "lighting" \in DOMAIN scene_data
                       /\ scene_data["lighting"].kind \in {"dict", "str"}
                    THEN <<JStr("Lighting:")>>
                    ELSE <<>>
        background == IF "background_setting" \in DOMAIN scene_data
                         \/ "background" \in DOMAIN scene_data
                      THEN <<JStr("Background:")>>
                      ELSE <<>>
    IN  base \o lighting \o background

\* lines 70-74: the descriptions of the first three objects
obj_descs(scene_data) ==
    IF "objects" \in DOMAIN scene_data /\ scene_data["objects"].kind = "list"
    THEN LET objs == scene_data["objects"].items
             top == SubSeq(objs, 1, IF Len(objs) < 3 THEN Len(objs) ELSE 3)
             described(obj) == obj.kind = "dict" /\ "description" \in DOMAIN obj.map
             kept == SelectSeq(top, described)
         IN  [i \in 1..Len(kept) |-> kept[i].map["description"]]
    ELSE <<>>

\* " ".join(parts) raises TypeError on a part that is no str
JoinRaises(parts) == \E i \in 1..Len(parts) : parts[i].kind # "str"

\* building the prompt raises: ", ".join(obj_descs) or " ".join(parts)
PromptRaises(scene_data) ==
    JoinRaises(obj_descs(scene_data)) \/ JoinRaises(PromptParts(scene_data))

JobOutcomes == {"image", "none"}

\* _make_api_call: the prompt is built before the try block; what follows
\* returns the path of the downloaded image or None (SpecPoll)
_make_api_call(scene_data, path, outcome) ==
    IF PromptRaises(scene_data) THEN Raise("TypeError")
    ELSE IF outcome = "image" THEN Ret(JStr(path))
    ELSE Ret(JNull)

\* what the stages of the foreground workflow can give: the base image
\* request and _poll_for_image_result, _remove_background, the download
ForegroundOutcomes ==
    [ post : {"ok", "request_error"},
      base : {Ret(Url1), Ret(JNull), Raise("AttributeError")},
      rmbg : {Ret(Url3), Ret(JNull)},
      download : BOOLEAN ]

\* _generate_foreground_sync: every exception is logged and raised again;
\* _download_image_as_png returns None when the download fails
_generate_foreground_sync(path, o) ==
    IF o.post # "ok" THEN Raise("RequestException")
    ELSE IF o.base.exc # "none" THEN Raise(o.base.exc)
    ELSE IF ~Truthy(o.base.val) THEN Raise("Failed to generate base image")
    ELSE IF ~Truthy(o.rmbg.val) THEN Raise("Failed to remove background")
    ELSE IF o.download THEN Ret(JStr(path))
    ELSE Ret(JNull)

\* generate_foreground_element._run_async: the arguments of the callback
ForegroundCallbackArgs(r) ==
    IF r.exc = "none" THEN <<r.val, JNull>> ELSE <<JNull, JStr(r.exc)>>

(***************************************************************************)
(* Spec: the add-on in a running host.  The operators and the timer        *)
(* callbacks run one at a time on the main loop; every worker thread runs  *)
(* beside them.  Status texts are written without their leading emoji.     *)
(***************************************************************************)
\* workers the model lets the user start
MaxWorkers == 2

WhiteSpace == {" ", "\t", "\n"}

RECURSIVE StripLeft(_)
StripLeft(s) ==
    IF Len(s) > 0 /\ SubSeq(s, 1, 1) \in WhiteSpace
    THEN StripLeft(SubSeq(s, 2, Len(s)))
    ELSE s

RECURSIVE StripRight(_)
StripRight(s) ==
    IF Len(s) > 0 /\ SubSeq(s, Len(s), Len(s)) \in WhiteSpace
    THEN StripRight(SubSeq(s, 1, Len(s) - 1))
    ELSE s

\* str.strip()
Strip(s) == StripRight(StripLeft(s))

\* what the clipboard holds when Paste Script runs
Clipboards == {"", "  ", "INT. BARN - DUSK"}

\* what the user types into the refinement and the foreground fields
RefineTexts == {"", "  ", "make the lights warmer"}

ForegroundTexts == {"", " burning car "}

\* answers of the structured-prompt API to the operators
AppMappings ==
    { [short_description |-> JStr("A barn at dusk"),
       lighting |-> JDict([direction |-> JStr("left"), conditions |-> JStr("dusk")])],
      [field_of_view |-> JNum],
      [short_description |-> JNull] }

AppResponses ==
    { WithPrompt(JText(JDict(m))) : m \in AppMappings }
        \cup { [net |-> "request_error", data |-> JNull] }

\* a scene that already has a camera and a sun
SceneWithCameraAndSun ==
    [NewScene EXCEPT !.camera = TRUE, !.cameras = 1, !.cam_z = 20, !.suns = 1]

Init ==
    /\ ParserIdle
    /\ PollIdle
    /\ DirectorIdle
    /\ _last_scene_data = NoMap
    /\ custom_script_text = JNull
    /\ previz_refine_text = ""
    /\ previz_foreground_text = ""
    /\ previz_status = "Ready"
    /\ scene \in {NewScene, SceneWithCameraAndSun}
    /\ threads = <<>>
    /\ timers = <<>>
    /\ writes = {}
    /\ last_op = NoOp

\* what an execute() call leaves in the history
Op(name, result, validated, returned) ==
    [op |-> name, result |-> result, validated |-> validated,
     threads_before |-> Len(threads), returned |-> returned]

\* threading.Thread(target=_run_async) after thread.start()
Thread(op, scene_data) ==
    [op |-> op, scene_data |-> scene_data, state |-> "running", calls |-> <<>>]

\* a write to host scene state, by the thread that executes it
Write(what, by) == [what |-> what, by |-> by]

\* the user edits the two text fields of the panel
SetRefineText ==
    /\ \E t \in RefineTexts : previz_refine_text' = t
    /\ UNCHANGED <<parserVars, pollVars, directorVars, _last_scene_data, custom_script_text,
                   previz_foreground_text, previz_status, scene, threads,
                   timers, writes, last_op>>

SetForegroundText ==
    /\ \E t \in ForegroundTexts : previz_foreground_text' = t
    /\ UNCHANGED <<parserVars, pollVars, directorVars, _last_scene_data, custom_script_text,
                   previz_refine_text, previz_status, scene, threads,
                   timers, writes, last_op>>

\* SCENE_OT_paste_script.execute
PasteScript ==
    /\ \E clipboard \in Clipboards :
         IF clipboard = ""
         THEN /\ last_op' = Op("paste", "CANCELLED", FALSE, NoMap)
              /\ UNCHANGED custom_script_text
         ELSE /\ custom_script_text' = JStr(clipboard)
              /\ last_op' = Op("paste", "FINISHED", TRUE, NoMap)
    /\ UNCHANGED <<parserVars, pollVars, directorVars, _last_scene_data, previz_refine_text,
                   previz_foreground_text, previz_status, scene, threads,
                   timers, writes>>

\* _last_scene_data = scene_data.copy(), line 86
GenerateStored(old, scene_data) == scene_data

\* Refine Scene that leaves the stored parameters as they were
RefineStored_KeepsOld(old, refined_data) == old

\* _last_scene_data = refined_data.copy(), line 167
RefineStored(old, refined_data) == refined_data

\* SCENE_OT_generate_scene.execute
GenerateScene ==
    LET text_block == custom_script_text
    IN  /\ IF text_block = JNull \/ IsBlank(text_block.str)
           THEN /\ last_op' = Op("generate", "CANCELLED", FALSE, NoMap)
                /\ UNCHANGED <<_last_scene_data, previz_status, scene, threads>>
           ELSE /\ Len(threads) < MaxWorkers
                /\ \E resp \in AppResponses :
                     LET scene_data == get_scene_parameters(resp).val
                         directed == ApplyDirector(scene, scene_data)
                     IN  /\ _last_scene_data' = GenerateStored(_last_scene_data, scene_data)
                         /\ scene' = directed.scene
                         /\ IF directed.exc # "none"
                            THEN /\ last_op' = Op("generate", "RAISED", TRUE, scene_data)
                                 /\ UNCHANGED <<previz_status, threads>>
                            ELSE /\ previz_status' = "Generating background..."
                                 /\ threads' = Append(threads, Thread("generate", scene_data))
                                 /\ last_op' = Op("generate", "FINISHED", TRUE, scene_data)
        /\ UNCHANGED <<parserVars, pollVars, directorVars, custom_script_text, previz_refine_text,
                       previz_foreground_text, timers, writes>>

\* Refine Scene that clears the instruction field also when it cancels
RefineScene_ClearsOnCancel ==
    /\ IF _last_scene_data = NoMap \/ IsBlank(previz_refine_text)
       THEN /\ last_op' = Op("refine", "CANCELLED", FALSE, NoMap)
            /\ previz_refine_text' = ""
            /\ UNCHANGED <<_last_scene_data, scene, threads>>
       ELSE /\ Len(threads) < MaxWorkers
            /\ \E resp \in AppResponses :
                 LET refined_data ==
                         refine_scene_parameters(_last_scene_data,
                                                 previz_refine_text, resp).val
                     directed == ApplyDirector(scene, refined_data)
                 IN  /\ _last_scene_data' = RefineStored(_last_scene_data, refined_data)
                     /\ scene' = directed.scene
                     /\ IF directed.exc # "none"
                        THEN /\ last_op' = Op("refine", "RAISED", TRUE, refined_data)
                             /\ UNCHANGED <<previz_refine_text, threads>>
                        ELSE /\ threads' = Append(threads, Thread("refine", refined_data))
                             /\ previz_refine_text' = ""
                             /\ last_op' = Op("refine", "FINISHED", TRUE, refined_data)
    /\ UNCHANGED <<parserVars, pollVars, directorVars, custom_script_text, previz_foreground_text,
                   previz_status, timers, writes>>

\* SCENE_OT_refine_scene.execute
RefineScene ==
    /\ IF _last_scene_data = NoMap \/ IsBlank(previz_refine_text)
       THEN /\ last_op' = Op("refine", "CANCELLED", FALSE, NoMap)
            /\ UNCHANGED <<_last_scene_data, previz_refine_text, scene, threads>>
       ELSE /\ Len(threads) < MaxWorkers
            /\ \E resp \in AppResponses :
                 LET refined_data ==
                         refine_scene_parameters(_last_scene_data,
                                                 previz_refine_text, resp).val
                     directed == ApplyDirector(scene, refined_data)
                 IN  /\ _last_scene_data' = RefineStored(_last_scene_data, refined_data)
                     /\ scene' = directed.scene
                     /\ IF directed.exc # "none"
                        THEN /\ last_op' = Op("refine", "RAISED", TRUE, refined_data)
                             /\ UNCHANGED <<previz_refine_text, threads>>
                        ELSE /\ threads' = Append(threads, Thread("refine", refined_data))
                             /\ previz_refine_text' = ""
                             /\ last_op' = Op("refine", "FINISHED", TRUE, refined_data)
    /\ UNCHANGED <<parserVars, pollVars, directorVars, custom_script_text, previz_foreground_text,
                   previz_status, timers, writes>>

\* SCENE_OT_add_foreground.execute
AddForeground ==
    LET description == Strip(previz_foreground_text)
    IN  /\ IF description = ""
           THEN /\ last_op' = Op("foreground", "CANCELLED", FALSE, NoMap)
                /\ UNCHANGED <<previz_foreground_text, threads>>
           ELSE /\ Len(threads) < MaxWorkers
                /\ threads' = Append(threads, Thread("foreground", NoMap))
                /\ previz_foreground_text' = ""
                /\ last_op' = Op("foreground", "FINISHED", TRUE, NoMap)
        /\ UNCHANGED <<parserVars, pollVars, directorVars, _last_scene_data, custom_script_text,
                       previz_refine_text, previz_status, scene, timers, writes>>

\* SCENE_OT_export_to_set._get_camera_data: the camera section of the export
_get_camera_data(s) ==
    IF ~s.camera
    THEN [error |-> "No active camera found"]
    ELSE [name |-> "Camera", z |-> s.cam_z, rotation_x |-> s.cam_tilt,
          focal_length_mm |-> s.lens]

\* _get_sun_data without the check for a missing sun light
_get_sun_data_NoCheck(s) ==
    [name |-> "Sun", rotation_euler |-> s.sun_rot, angular_diameter |-> s.sun_angle]

\* SCENE_OT_export_to_set._get_sun_data: the sun section of the export
_get_sun_data(s) ==
    IF s.suns = 0
    THEN [error |-> "No sun light found"]
    ELSE [name |-> "Sun", rotation_euler |-> s.sun_rot,
          angular_diameter |-> s.sun_angle]

\* what open(filepath, 'w') and json.dump can do
WriteOutcomes == {"ok", "open_error", "dump_error"}

\* SCENE_OT_export_to_set.execute: the report, the file and its content
Export(s, write) ==
    [report |-> IF write = "ok" THEN "INFO" ELSE "ERROR",
     file   |-> CASE write = "ok"         -> "written"
                  [] write = "open_error" -> "absent"
                  [] write = "dump_error" -> "partial",
     camera |-> _get_camera_data(s),
     sun    |-> _get_sun_data(s)]

\* SCENE_OT_export_to_set.execute
ExportToSet ==
    /\ \E write \in WriteOutcomes :
         last_op' = Op("export",
                       IF write = "ok" THEN "FINISHED" ELSE "CANCELLED",
                       TRUE, Export(scene, write))
    /\ UNCHANGED <<parserVars, pollVars, directorVars, _last_scene_data, custom_script_text,
                   previz_refine_text, previz_foreground_text, previz_status,
                   scene, threads, timers, writes>>

\* the file a worker downloads its image to (tempfile.mkstemp)
PathOf(w) == IF threads[w].op = "foreground"
             THEN "previz_foreground_" \o ToString(w) \o ".png"
             ELSE "previz_bg_" \o ToString(w) \o ".png"

\* a one-shot timer registered with bpy.app.timers.register
Timer(fn, op, path) == [fn |-> fn, op |-> op, path |-> path]

\* generate_background_image._run_async on the thread w: _make_api_call,
\* then image_ready_callback of the operator that started the thread
BackgroundWorker(w) ==
    /\ threads[w].state = "running"
    /\ threads[w].op \in {"generate", "refine"}
    /\ \E outcome \in JobOutcomes :
         LET image_path == _make_api_call(threads[w].scene_data, PathOf(w), outcome)
         IN  IF image_path.exc # "none"
             THEN /\ threads' = [threads EXCEPT ![w].state = "died"]
                  /\ UNCHANGED <<previz_status, timers, writes>>
             ELSE /\ threads' = [threads EXCEPT
                                    ![w].state = "finished",
                                    ![w].calls = Append(@, <<image_path.val>>)]
                  /\ IF Truthy(image_path.val)
                     THEN /\ timers' = Append(timers,
                                 Timer("update_scene", threads[w].op, image_path.val.str))
                          /\ UNCHANGED <<previz_status, writes>>
                     ELSE IF threads[w].op = "generate"
                     THEN /\ previz_status' = "Generation failed"
                          /\ writes' = writes \cup {Write("previz_status", "worker")}
                          /\ UNCHANGED timers
                     ELSE UNCHANGED <<previz_status, timers, writes>>
    /\ UNCHANGED <<parserVars, pollVars, directorVars, _last_scene_data, custom_script_text,
                   previz_refine_text, previz_foreground_text, scene, last_op>>

\* generate_foreground_element._run_async on the thread w, then on_complete
ForegroundWorker(w) ==
    /\ threads[w].state = "running"
    /\ threads[w].op = "foreground"
    /\ \E o \in ForegroundOutcomes :
         LET args == ForegroundCallbackArgs(_generate_foreground_sync(PathOf(w), o))
             image_path == args[1]
             error == args[2]
         IN  /\ threads' = [threads EXCEPT ![w].state = "finished",
                                           ![w].calls = Append(@, args)]
             /\ IF ~Truthy(error) /\ Truthy(image_path)
                THEN timers' = Append(timers,
                                  Timer("import_card", "foreground", image_path.str))
                ELSE UNCHANGED timers
    /\ UNCHANGED <<parserVars, pollVars, directorVars, _last_scene_data, custom_script_text,
                   previz_refine_text, previz_foreground_text, previz_status,
                   scene, writes, last_op>>

\* the sequence s without its element i
Without(s, i) == SubSeq(s, 1, i - 1) \o SubSeq(s, i + 1, Len(s))

\* update_scene of Generate Scene: status, world background, shadow
\* catcher, viewport shading, status
GenerateUpdateScene(s, path, loads) ==
    ShadeRendered(create_shadow_catcher_plane(setup_world_background(s, path, loads)))

\* update_scene of Refine Scene: world background and viewport shading
RefineUpdateScene(s, path, loads) ==
    ShadeRendered(setup_world_background(s, path, loads))

\* import_card: the viewport is switched only when a card was made
ImportCard(s, path, loads) ==
    IF loads THEN ShadeRendered(import_image_as_card(s, path, loads)) ELSE s

\* the host main loop runs a registered timer once and unregisters it
RunTimer ==
    /\ \E i \in 1..Len(timers), loads \in BOOLEAN :
         LET t == timers[i]
         IN  /\ timers' = Without(timers, i)
             /\ CASE t.fn = "update_scene" /\ t.op = "generate" ->
                       /\ previz_status' = "Ready"
                       /\ scene' = GenerateUpdateScene(scene, t.path, loads)
                       /\ writes' = writes \cup
                            { Write(x, "timer") :
                                x \in {"previz_status", "world_background",
                                       "shadow_catcher_plane", "viewport_shading"} }
                  [] t.fn = "update_scene" /\ t.op = "refine" ->
                       /\ scene' = RefineUpdateScene(scene, t.path, loads)
                       /\ writes' = writes \cup
                            { Write(x, "timer") :
                                x \in {"world_background", "viewport_shading"} }
                       /\ UNCHANGED previz_status
                  [] OTHER ->
                       /\ scene' = ImportCard(scene, t.path, loads)
                       /\ writes' = writes \cup
                            IF loads
                            THEN { Write(x, "timer") :
                                     x \in {"foreground_card", "viewport_shading"} }
                            ELSE {}
                       /\ UNCHANGED previz_status
    /\ UNCHANGED <<parserVars, pollVars, directorVars, _last_scene_data, custom_script_text,
                   previz_refine_text, previz_foreground_text, threads, last_op>>

WorkerStep ==
    \E w \in 1..Len(threads) : BackgroundWorker(w) \/ ForegroundWorker(w)

Next ==
    \/ PasteScript
    \/ SetRefineText
    \/ SetForegroundText
    \/ GenerateScene
    \/ RefineScene
    \/ AddForeground
    \/ ExportToSet
    \/ WorkerStep
    \/ RunTimer

Spec == Init /\ [][Next]_vars

(***************************************************************************)
(* SpecDirector: apply_camera_settings on string inputs                    *)
(***************************************************************************)
\* the key is not in json_data
Missing == "(missing)"

\* values of field_of_view: keys of the lens map in several cases, the
\* default "35mm" of the parser, a key with a trailing blank, the empty str
FovValues ==
    { "Wide", "wide shot", "standard", "NORMAL", "Telephoto", "Close Up",
      "35mm", "wide ", "" }

\* values of camera_angle: the default "Eye Level" of the parser, one word
\* of each preset, and values that name two presets
AngleValues ==
    { "Eye Level", "Low Angle", "High Angle", "Overhead", "HIGH, then low",
      "low angle from overhead", "Dutch", "" }

\* json_data with the two fields as str, or without them
CameraInput(fov, angle) ==
    Merge(IF fov = Missing THEN NoMap ELSE [field_of_view |-> JStr(fov)],
          IF angle = Missing THEN NoMap ELSE [camera_angle |-> JStr(angle)])

CameraInputs ==
    { CameraInput(fov, angle) :
        fov \in FovValues \cup {Missing}, angle \in AngleValues \cup {Missing} }

DirectorInit ==
    /\ ParserIdle
    /\ PollIdle
    /\ _last_scene_data = NoMap
    /\ custom_script_text = JNull
    /\ previz_refine_text = ""
    /\ previz_foreground_text = ""
    /\ previz_status = "Ready"
    /\ scene \in {NewScene, SceneWithCameraAndSun}
    /\ threads = <<>>
    /\ timers = <<>>
    /\ writes = {}
    /\ last_op = NoOp
    /\ d_stage = "input"
    /\ d_json_data \in CameraInputs
    /\ d_exc = "none"

CallApplyCameraSettings ==
    /\ d_stage = "input"
    /\ LET done == apply_camera_settings(scene, d_json_data)
       IN  /\ scene' = done.scene
           /\ d_exc' = done.exc
    /\ d_stage' = "done"
    /\ UNCHANGED <<parserVars, pollVars, _last_scene_data, custom_script_text,
                   previz_refine_text, previz_foreground_text, previz_status,
                   threads, timers, writes, last_op, d_json_data>>

DirectorNext == CallApplyCameraSettings

SpecDirector == DirectorInit /\ [][DirectorNext]_vars

\* the keys of lens_map
LensKeys == {"wide", "wide shot", "standard", "normal", "telephoto", "close up"}

\* the str a field of the input holds in lower case, or Missing
FieldLower(k) ==
    IF k \in DOMAIN d_json_data THEN Lower(d_json_data[k].str) ELSE Missing

\* the camera height in tenths of a metre and the tilt in degrees
LowPreset == <<5, 80>>

HighPreset == <<50, 45>>

EyeLevelPreset == <<17, 90>>

\* C21: on str inputs apply_camera_settings raises nothing; the lens is 24,
\* 50 or 85 mm and is 50 when field_of_view is missing or no key of the lens
\* map; height and tilt are the low preset when camera_angle names low, else
\* the high preset when it names high or overhead, else the eye-level preset,
\* which is also the one for a missing camera_angle.
C21_CameraDefaults ==
    d_stage = "done" =>
        LET fov == FieldLower("field_of_view")
            angle == FieldLower("camera_angle")
            names(word) == angle # Missing /\ Contains(angle, word)
            preset == <<scene.cam_z, scene.cam_tilt>>
        IN  /\ d_exc = "none"
            /\ scene.camera
            /\ scene.lens \in {24, 50, 85}
            /\ fov \notin LensKeys => scene.lens = 50
            /\ fov \in {"wide", "wide shot"} => scene.lens = 24
            /\ fov \in {"telephoto", "close up"} => scene.lens = 85
            /\ preset \in {LowPreset, HighPreset, EyeLevelPreset}
            /\ names("low") => preset = LowPreset
            /\ (~names("low") /\ (names("high") \/ names("overhead")))
                   => preset = HighPreset
            /\ (~names("low") /\ ~names("high") /\ ~names("overhead"))
                   => preset = EyeLevelPreset

\* the call was made with the default field of view of the parser and a
\* camera angle that names high before low
C21_Witness ==
    /\ d_stage = "done"
    /\ d_json_data = CameraInput("35mm", "HIGH, then low")
    /\ scene.lens = 50
    /\ <<scene.cam_z, scene.cam_tilt>> = LowPreset

(***************************************************************************)
(* Properties of the add-on                                                *)
(***************************************************************************)
\* the worker threads that have ended, by returning or by an exception
Ended(ops) ==
    {w \in 1..Len(threads) : threads[w].op \in ops /\ threads[w].state # "running"}

\* C2: every write to host scene state that a finishing worker causes (world
\* background, shadow-catcher plane, viewport shading, foreground card,
\* previz_status) is executed by a timer callback on the main loop and never
\* by the worker thread, when the worker succeeded and when it failed.
C2_WritesOnMainLoop == \A x \in writes : x.by = "timer"

\* C3: a worker of generate_background_image that has ended has invoked its
\* callback exactly once, with the path of its image or with None, whatever
\* the scene data and the answers of the image service were.
C3_CallbackExactlyOnce ==
    \A w \in Ended({"generate", "refine"}) :
        /\ Len(threads[w].calls) = 1
        /\ threads[w].calls[1] \in {<<JStr(PathOf(w))>>, <<JNull>>}

\* C4: a worker of generate_foreground_element that has ended has called
\* its callback exactly once, as (image_path, None) with a path that is not
\* None or as (None, error) with an error that is not None.
C4_ForegroundCallbackContract ==
    \A w \in Ended({"foreground"}) :
        /\ Len(threads[w].calls) = 1
        /\ LET image_path == threads[w].calls[1][1]
               error == threads[w].calls[1][2]
           IN  \/ image_path # JNull /\ error = JNull
               \/ image_path = JNull /\ error # JNull

\* the last operator run was Generate Scene or Refine Scene and passed its
\* input validation
StoringOp(op) == op.op \in {"generate", "refine"} /\ op.validated

\* C9: _last_scene_data is empty at first, every execution of Generate
\* Scene or Refine Scene that passes its validation leaves in it the
\* parameters the parser returned to that execution, and no other step
\* changes it.
C9_LastSceneData ==
    /\ _last_scene_data = NoMap
    /\ [][IF StoringOp(last_op')
          THEN _last_scene_data' = last_op'.returned
          ELSE _last_scene_data' = _last_scene_data]_vars

\* Refine Scene has replaced the parameters of a Generate Scene by refined
\* ones that carry a lighting temperature
C9_Witness ==
    /\ last_op.op = "refine"
    /\ last_op.result = "FINISHED"
    /\ _last_scene_data = last_op.returned
    /\ "lighting" \in DOMAIN _last_scene_data
    /\ _last_scene_data["lighting"].kind = "dict"
    /\ "temperature" \in DOMAIN _last_scene_data["lighting"].map

\* C10: an accepted Generate Scene, Refine Scene or Add Foreground Element
\* has returned FINISHED and has started exactly one worker thread, however
\* many workers there were.
C10_AcceptedStartsOneWorker ==
    (last_op.validated /\ last_op.op \in {"generate", "refine", "foreground"}) =>
        /\ last_op.result = "FINISHED"
        /\ Len(threads) = last_op.threads_before + 1

\* the main loop runs an update_scene timer and the image does not load
FailedLoadStep ==
    \E i \in 1..Len(timers) :
        /\ timers[i].fn = "update_scene"
        /\ timers' = Without(timers, i)
        /\ scene' = IF timers[i].op = "generate"
                    THEN GenerateUpdateScene(scene, timers[i].path, FALSE)
                    ELSE RefineUpdateScene(scene, timers[i].path, FALSE)

\* C12: when the generated image cannot be loaded, setup_world_background
\* leaves the nodes and the links of the world as they were before the
\* call, so that a background that worked is kept.
C12_FailedLoadKeepsWorld ==
    [][FailedLoadStep =>
          /\ scene'.world_nodes = scene.world_nodes
          /\ scene'.world_links = scene.world_links]_vars

\* C13: the export operator returns FINISHED with an INFO report when the
\* file is written and CANCELLED with an ERROR report when the write raises;
\* a scene without a camera or without a sun light still exports, with an
\* "error" entry in that section and the data of the other section.
C13_ExportResult ==
    last_op.op = "export" =>
        /\ last_op.result \in {"FINISHED", "CANCELLED"}
        /\ last_op.result = "FINISHED" <=>
               (last_op.returned.file = "written" /\ last_op.returned.report = "INFO")
        /\ last_op.result = "CANCELLED" <=>
               (last_op.returned.file # "written" /\ last_op.returned.report = "ERROR")
        /\ "error" \in DOMAIN last_op.returned.camera <=> ~scene.camera
        /\ "error" \in DOMAIN last_op.returned.sun <=> scene.suns = 0
        /\ scene.camera => last_op.returned.camera.focal_length_mm = scene.lens
        /\ scene.suns # 0 => last_op.returned.sun.rotation_euler = scene.sun_rot

\* an export of a scene without a sun light was written
C13_Witness ==
    /\ last_op.op = "export"
    /\ last_op.result = "FINISHED"
    /\ scene.suns = 0
    /\ last_op.returned.sun = [error |-> "No sun light found"]
    /\ last_op.returned.file = "written"

\* C19: with a single Generate request, once its worker thread has ended
\* and no timer is pending, previz_status has left the generating and the
\* loading value and is "Ready" or "Generation failed".
C19_StatusReachesFinalValue ==
    ( /\ Len(threads) = 1
      /\ threads[1].op = "generate"
      /\ threads[1].state # "running"
      /\ timers = <<>> )
    => previz_status \in {"Ready", "Generation failed"}

\* the operators that validate their input before they act
ValidatingOps == {"paste", "generate", "refine", "foreground"}

\* C20: an execution of Paste, Generate, Refine or Add Foreground that
\* returns CANCELLED for invalid input has called no parser, started no
\* thread and registered no timer, and leaves _last_scene_data,
\* previz_status, the three input text properties and the scene unchanged.
C20_CancelledChangesNothing ==
    [][ ( /\ last_op' # last_op
          /\ last_op'.op \in ValidatingOps
          /\ last_op'.result = "CANCELLED" )
        => /\ ~last_op'.validated
           /\ last_op'.returned = NoMap
           /\ UNCHANGED <<_last_scene_data, previz_status, custom_script_text,
                          previz_refine_text, previz_foreground_text, scene,
                          threads, timers, writes>> ]_vars

\* Refine Scene was cancelled for a blank instruction while the worker of
\* an earlier Generate Scene was running
C20_Witness ==
    /\ last_op.op = "refine"
    /\ last_op.result = "CANCELLED"
    /\ _last_scene_data # NoMap
    /\ previz_refine_text = "  "
    /\ Len(threads) = 1
    /\ threads[1].state = "running"
    /\ previz_status = "Generating background..."

\* C22: after an execution of Generate Scene or Refine Scene that passed
\* the validation of its input, the scene has an active camera and a sun
\* light, and no more than one camera and one sun exist: both are made only
\* when missing.
C22_CameraAndSunFoundOrCreated ==
    (last_op.op \in {"generate", "refine"} /\ last_op.validated) =>
        /\ scene.camera
        /\ scene.cameras = 1
        /\ scene.suns = 1

\* the worker of thread w has handed an image to its callback
GaveImage(w) ==
    /\ threads[w].op \in {"generate", "refine"}
    /\ threads[w].state = "finished"
    /\ threads[w].calls = << <<JStr(PathOf(w))>> >>

\* C23: when two background generations were in flight and both handed an
\* image to their callbacks, then once no timer is pending a world
\* background that shows an image shows the image of the request issued
\* last.
C23_LatestRequestWins ==
    ( /\ Len(threads) = 2
      /\ GaveImage(1)
      /\ GaveImage(2)
      /\ timers = <<>>
      /\ scene.world_image # "none" )
    => scene.world_image = PathOf(2)

====
